---- MODULE Spec2Model ----
(***************************************************************************)
(* Model of my_agent/tools.py: the three tools handed to the agent         *)
(* (create_calendar_event, get_weather, news_tool) and the credential      *)
(* helper get_calendar_service.  The remote providers, the token endpoint, *)
(* the interactive authorization flow and the local disk are the           *)
(* environment: each external call draws its outcome from the set of       *)
(* outcomes the call can have.  Every tool runs to completion before the   *)
(* next one starts (synchronous, single threaded).                         *)
(***************************************************************************)
EXTENDS Integers, Sequences, FiniteSets, TLC

VARIABLES
    pc,          \* position of the running tool invocation ("idle" between invocations)
    now,         \* wall clock, in token lifetimes
    tokenFile,   \* contents of TOKEN_FILE on disk
    credFile,    \* TRUE iff CREDENTIALS_FILE exists on disk
    creds,       \* local variable creds of get_calendar_service
    fileAtCall,  \* TOKEN_FILE as it was when the running invocation started
    loaded,      \* the credential the running invocation read from TOKEN_FILE
    trace,       \* external effects of the running invocation, in order
    request,     \* argument of the running invocation
    exc,         \* exception in flight ("none" when there is none)
    sent,        \* last HTTP request the running invocation issued
    geo,         \* body the geocoding endpoint answered with
    response,    \* body returned by the provider to the running invocation
    result,      \* what the running invocation hands back to its caller
    calendar,    \* events held by the calendar provider, in creation order
    log          \* completed create_calendar_event invocations, oldest first

vars == <<pc, now, tokenFile, credFile, creds, fileAtCall, loaded, trace,
          request, exc, sent, geo, response, result, calendar, log>>

----------------------------------------------------------------------------
(* Bounds of the model *)

MaxTime == 2
MaxCalls == 2
MaxLen == 5
MaxReturned == 3
MaxArticles == 2

----------------------------------------------------------------------------
(* Credentials and the token file *)

\* creds = None
NoCreds == [present |-> FALSE, token |-> FALSE, refresh_token |-> FALSE, expiry |-> 0]

\* TOKEN_FILE does not exist
NoFile == [exists |-> FALSE, parses |-> FALSE, token |-> FALSE,
           refresh_token |-> FALSE, expiry |-> 0]

\* TOKEN_FILE exists but is not an authorized-user document
CorruptFile == [exists |-> TRUE, parses |-> FALSE, token |-> FALSE,
                refresh_token |-> FALSE, expiry |-> 0]

\* Token files holding an authorized-user document.  An expiry beyond MaxTime
\* stands for a credential that never expires within the run.
SavedFiles == [exists : {TRUE}, parses : {TRUE}, token : BOOLEAN,
               refresh_token : BOOLEAN, expiry : 0..(MaxTime + 1)]

TokenFiles == {NoFile, CorruptFile} \cup SavedFiles

\* creds.to_json(): the document written to TOKEN_FILE
ToJson(c) == [exists |-> TRUE, parses |-> TRUE, token |-> c.token,
              refresh_token |-> c.refresh_token, expiry |-> c.expiry]

\* Credentials.from_authorized_user_file(TOKEN_FILE, SCOPES) on a document that parses
FromFile(f) == [present |-> TRUE, token |-> f.token,
                refresh_token |-> f.refresh_token, expiry |-> f.expiry]

\* creds.expired
Expired(c, t) == t >= c.expiry

\* creds.valid
Valid(c, t) == c.token /\ ~Expired(c, t)

\* "if not creds or not creds.valid"
NeedsAuthLoadedOnly(c, t) == c.present /\ ~Valid(c, t)
NeedsAuthAlways(c, t) == TRUE
NeedsAuth(c, t) == ~c.present \/ ~Valid(c, t)

\* "if creds and creds.expired and creds.refresh_token"
CanRefreshWrongField(c, t) == c.present /\ Expired(c, t) /\ c.token
CanRefresh(c, t) == c.present /\ Expired(c, t) /\ c.refresh_token

\* creds.refresh(Request()) when the token endpoint answers: a new access token
Refreshed(c, t) == [c EXCEPT !.token = TRUE, !.expiry = t + 1]

\* flow.run_local_server(port=0) when the user grants access
Granted(rt, t) == [present |-> TRUE, token |-> TRUE, refresh_token |-> rt,
                   expiry |-> t + 1]

----------------------------------------------------------------------------
(* Values shared by the tools *)

NoRequest == [tool |-> "none"]
NoResponse == [kind |-> "none"]
NoResult == [kind |-> "none"]

EventRequests == [tool : {"calendar"}, summary : {"Standup", "Review"}]

\* calls to the token endpoint and runs of the interactive flow
AuthEvents == {"refresh_ok", "refresh_fail", "flow_ok", "flow_fail"}

Events(tr) == {tr[i] : i \in DOMAIN tr}

Count(tr, S) == Cardinality({i \in DOMAIN tr : tr[i] \in S})

----------------------------------------------------------------------------
Init ==
    /\ pc = "idle"
    /\ now = 0
    /\ tokenFile \in TokenFiles
    /\ credFile \in BOOLEAN
    /\ creds = NoCreds
    /\ fileAtCall = NoFile
    /\ loaded = NoCreds
    /\ trace = <<>>
    /\ request = NoRequest
    /\ exc = "none"
    /\ sent = NoResponse
    /\ geo = NoResponse
    /\ response = NoResponse
    /\ result = NoResult
    /\ calendar = <<>>
    /\ log = <<>>

\* Time passes between invocations
Tick ==
    /\ pc = "idle"
    /\ now < MaxTime
    /\ now' = now + 1
    /\ UNCHANGED <<pc, tokenFile, credFile, creds, fileAtCall, loaded, trace,
                   request, exc, sent, geo, response, result, calendar, log>>

----------------------------------------------------------------------------
(* create_calendar_event and get_calendar_service *)

\* the dispatcher calls create_calendar_event(input)
CallCreateEvent ==
    /\ pc = "idle"
    /\ Len(log) < MaxCalls
    /\ \E r \in EventRequests : request' = r
    /\ pc' = "gcs_load"
    /\ fileAtCall' = tokenFile
    /\ UNCHANGED <<now, tokenFile, credFile, creds, loaded, trace, exc, sent,
                   geo, response, result, calendar, log>>

\* get_calendar_service, lines 22-26: creds = None, then the token file is read if present
GcsLoad ==
    /\ pc = "gcs_load"
    /\ IF ~tokenFile.exists
         THEN /\ creds' = NoCreds
              /\ pc' = "gcs_check"
              /\ exc' = exc
         ELSE IF tokenFile.parses
                THEN /\ creds' = FromFile(tokenFile)
                     /\ pc' = "gcs_check"
                     /\ exc' = exc
                ELSE /\ creds' = NoCreds
                     /\ pc' = "ce_except"
                     /\ exc' = "ValueError"
    /\ loaded' = creds'
    /\ UNCHANGED <<now, tokenFile, credFile, fileAtCall, trace, request, sent,
                   geo, response, result, calendar, log>>

\* get_calendar_service, lines 29-36: which way a credential is obtained
GcsCheck ==
    /\ pc = "gcs_check"
    /\ IF ~NeedsAuth(creds, now)
         THEN pc' = "gcs_build" /\ exc' = exc
         ELSE IF CanRefresh(creds, now)
                THEN pc' = "gcs_refresh" /\ exc' = exc
                ELSE IF ~credFile
                       THEN pc' = "ce_except" /\ exc' = "FileNotFoundError"
                       ELSE pc' = "gcs_flow" /\ exc' = exc
    /\ UNCHANGED <<now, tokenFile, credFile, creds, fileAtCall, loaded, trace,
                   request, sent, geo, response, result, calendar, log>>

\* line 32: creds.refresh(Request())
GcsRefresh ==
    /\ pc = "gcs_refresh"
    /\ \/ /\ creds' = Refreshed(creds, now)
          /\ trace' = Append(trace, "refresh_ok")
          /\ pc' = "gcs_save"
          /\ exc' = exc
       \/ /\ creds' = creds
          /\ trace' = Append(trace, "refresh_fail")
          /\ pc' = "ce_except"
          /\ exc' = "RefreshError"
    /\ UNCHANGED <<now, tokenFile, credFile, fileAtCall, loaded, request, sent,
                   geo, response, result, calendar, log>>

\* lines 38-39: the interactive authorization flow
GcsFlow ==
    /\ pc = "gcs_flow"
    /\ \/ /\ \E rt \in BOOLEAN : creds' = Granted(rt, now)
          /\ trace' = Append(trace, "flow_ok")
          /\ pc' = "gcs_save"
          /\ exc' = exc
       \/ /\ creds' = creds
          /\ trace' = Append(trace, "flow_fail")
          /\ pc' = "ce_except"
          /\ exc' = "FlowError"
    /\ UNCHANGED <<now, tokenFile, credFile, fileAtCall, loaded, request, sent,
                   geo, response, result, calendar, log>>

\* lines 42-43: what TOKEN_FILE holds after token.write(creds.to_json())
SavedTokenStale(c, old) == old
SavedToken(c, old) == ToJson(c)

GcsSave ==
    /\ pc = "gcs_save"
    /\ \/ /\ tokenFile' = SavedToken(creds, tokenFile)
          /\ trace' = Append(trace, "write")
          /\ pc' = "gcs_build"
          /\ exc' = exc
       \/ /\ tokenFile' = tokenFile
          /\ trace' = trace
          /\ pc' = "ce_except"
          /\ exc' = "OSError"
    /\ UNCHANGED <<now, credFile, creds, fileAtCall, loaded, request, sent,
                   geo, response, result, calendar, log>>

\* line 45: build('calendar', 'v3', credentials=creds), then return
GcsBuild ==
    /\ pc = "gcs_build"
    /\ \/ pc' = "ce_insert" /\ exc' = exc /\ trace' = Append(trace, "service")
       \/ pc' = "ce_except" /\ exc' = "BuildError" /\ trace' = trace
    /\ UNCHANGED <<now, tokenFile, credFile, creds, fileAtCall, loaded,
                   request, sent, geo, response, result, calendar, log>>

\* bodies the provider can answer an accepted insert with
InsertResponses == [kind : {"event"}, hasStart : BOOLEAN]

\* line 74: service.events().insert(calendarId='primary', body=event).execute()
CeInsert ==
    /\ pc = "ce_insert"
    /\ \/ /\ \E r \in InsertResponses : response' = r
          /\ calendar' = Append(calendar, [summary |-> request.summary,
                                           id |-> Len(calendar) + 1])
          /\ trace' = Append(trace, "insert_ok")
          /\ pc' = "ce_format"
          /\ exc' = exc
       \/ /\ response' = response
          /\ calendar' = calendar
          /\ trace' = Append(trace, "insert_fail")
          /\ pc' = "ce_except"
          /\ exc' = "HttpError"
    /\ UNCHANGED <<now, tokenFile, credFile, creds, fileAtCall, loaded,
                   request, sent, geo, result, log>>

\* line 76: event.get('start').get('dateTime') fails when the body has no start
CeFormat ==
    /\ pc = "ce_format"
    /\ IF response.hasStart
         THEN /\ result' = [kind |-> "returned", prefix |-> "SUCCESS:", detail |-> "none"]
              /\ pc' = "done"
              /\ exc' = exc
         ELSE /\ result' = result
              /\ pc' = "ce_except"
              /\ exc' = "AttributeError"
    /\ UNCHANGED <<now, tokenFile, credFile, creds, fileAtCall, loaded, trace,
                   request, sent, geo, response, calendar, log>>

\* lines 78-80: except Exception as e
CalendarHandler(e) == [kind |-> "returned", prefix |-> "ERROR:", detail |-> e]

CeExcept ==
    /\ pc = "ce_except"
    /\ result' = CalendarHandler(exc)
    /\ exc' = "none"
    /\ pc' = "done"
    /\ UNCHANGED <<now, tokenFile, credFile, creds, fileAtCall, loaded, trace,
                   request, sent, geo, response, calendar, log>>

\* control is back with the dispatcher
CeReturn ==
    /\ pc = "done"
    /\ request.tool = "calendar"
    /\ log' = Append(log, [request |-> request,
                           attempts |-> Count(trace, {"insert_ok", "insert_fail"}),
                           event |-> IF "insert_ok" \in Events(trace)
                                       THEN Len(calendar) ELSE 0,
                           result |-> result])
    /\ pc' = "idle"
    /\ creds' = NoCreds
    /\ fileAtCall' = NoFile
    /\ loaded' = NoCreds
    /\ trace' = <<>>
    /\ request' = NoRequest
    /\ response' = NoResponse
    /\ result' = NoResult
    /\ UNCHANGED <<now, tokenFile, credFile, exc, sent, geo, calendar>>

NextCalendar ==
    \/ Tick
    \/ CallCreateEvent
    \/ GcsLoad
    \/ GcsCheck
    \/ GcsRefresh
    \/ GcsFlow
    \/ GcsSave
    \/ GcsBuild
    \/ CeInsert
    \/ CeFormat
    \/ CeExcept
    \/ CeReturn

SpecCalendar == Init /\ [][NextCalendar]_vars

----------------------------------------------------------------------------
(* Helpers of get_weather and news_tool *)

SeqsUpTo(S, n) == UNION {[1..k -> S] : k \in 0..n}

MinLen(a, b) == IF Len(a) <= Len(b) THEN Len(a) ELSE Len(b)

\* min(temperatures), max(temperatures) on a non-empty list
Min(xs) == CHOOSE m \in Events(xs) : \A i \in DOMAIN xs : m <= xs[i]
Max(xs) == CHOOSE m \in Events(xs) : \A i \in DOMAIN xs : m >= xs[i]

\* list(zip(times, temperatures)): stops at the end of the shorter list
Zip(a, b) == [i \in 1..MinLen(a, b) |-> <<a[i], b[i]>>]

\* requests' exception classes: HTTPError and the others derived from RequestException
RequestExceptions == {"HTTPError", "ConnectionError", "RequestsJSONDecodeError"}

\* response.json() on a body that is not JSON raises a RequestException
\* subclass or a plain ValueError, depending on the installed requests
JsonErrors == {"RequestsJSONDecodeError", "ValueError"}

ReturnValue(v) == [kind |-> "returned", value |-> v]
Raise(e) == [kind |-> "raised", value |-> [exception |-> e]]

----------------------------------------------------------------------------
(* get_weather *)

Cities == {"London", "Nonexistent City Xyz123"}
WeatherRequests == [tool : {"weather"}, city : Cities]

\* results[0] of the geocoding answer; complete iff it has the four keys read
Locations == [complete : BOOLEAN, numeric : BOOLEAN,
              name : {"London"}, country : {"United Kingdom"}]

GeoBodies ==
    [kind : {"body"}, json : {FALSE}, dict : {FALSE}, hasResults : {FALSE}, results : {<<>>}]
    \cup [kind : {"body"}, json : {TRUE}, dict : {FALSE}, hasResults : {FALSE}, results : {<<>>}]
    \cup [kind : {"body"}, json : {TRUE}, dict : {TRUE}, hasResults : {FALSE}, results : {<<>>}]
    \cup [kind : {"body"}, json : {TRUE}, dict : {TRUE}, hasResults : {TRUE},
          results : SeqsUpTo(Locations, 1)]

\* line 107: not geo_data.get('results')
GeoNoMatchKeyOnly(body) == ~body.hasResults
GeoNoMatch(body) == ~body.hasResults \/ body.results = <<>>

\* line 108
NotFoundError(city) ==
    [status |-> "error",
     error_message |-> <<"Sorry, could not find coordinates for '", city, "'.">>]

\* hourly time stamps: one as the provider writes them, one without the 'T'
TimeVals == {"2025-12-01T04:00", "2025-12-01 04:00"}
TempVals == {-2, 7}

\* t.split('T')
SplitT(t) == IF t = "2025-12-01T04:00" THEN <<"2025-12-01", "04:00">> ELSE <<t>>

\* clock.split(':')[0]
HourOf(clock) == IF clock = "04:00" THEN "04" ELSE clock

ForecastBodies ==
    [kind : {"body"}, json : {FALSE}, dict : {FALSE}, hasHourly : {FALSE},
     time : {<<>>}, temperature_2m : {<<>>}]
    \cup [kind : {"body"}, json : {TRUE}, dict : BOOLEAN, hasHourly : {FALSE},
          time : {<<>>}, temperature_2m : {<<>>}]
    \cup [kind : {"body"}, json : {TRUE}, dict : {TRUE}, hasHourly : {TRUE},
          time : SeqsUpTo(TimeVals, MaxLen), temperature_2m : SeqsUpTo(TempVals, MaxLen)]

\* line 146: range(0, len(times), 4), as 1-based positions
SampleStride == 4
SamplePositions(times) == {i \in 1..Len(times) : (i - 1) % SampleStride = 0}

\* lines 134-147: the exception raised while the report is compiled, if any
ProcessError(loc, times, temps) ==
    IF temps = <<>> THEN "ValueError"
    ELSE IF ~loc.numeric THEN "ValueError"
    ELSE IF \E i \in SamplePositions(times) : Len(SplitT(times[i])) < 2 \/ i > Len(temps)
           THEN "IndexError"
    ELSE "none"

\* lines 138-147: the sampled lines of the report
ReportLines(times, temps) ==
    [k \in 1..Cardinality(SamplePositions(times)) |->
        <<HourOf(SplitT(times[(k - 1) * SampleStride + 1])[2]),
          temps[(k - 1) * SampleStride + 1]>>]

\* lines 150-157
Success(loc, times, temps) ==
    [status |-> "success",
     city |-> loc.name,
     report |-> [city |-> loc.name, country |-> loc.country,
                 min |-> Min(temps), max |-> Max(temps),
                 lines |-> ReportLines(times, temps)],
     min_temperature_celsius |-> Min(temps),
     max_temperature_celsius |-> Max(temps),
     hourly_data |-> Zip(times, temps)]

\* lines 159-166: the except clauses, in order
WeatherHandlerNoCatchAll(e) ==
    IF e = "HTTPError"
      THEN ReturnValue([status |-> "error",
                        error_message |-> <<"HTTP Error: Could not fetch data. (", e, ")">>])
    ELSE IF e \in RequestExceptions
      THEN ReturnValue([status |-> "error",
                        error_message |-> <<"Connection Error: Could not connect to the API server.">>])
    ELSE Raise(e)
WeatherHandler(e) ==
    IF e = "HTTPError"
      THEN ReturnValue([status |-> "error",
                        error_message |-> <<"HTTP Error: Could not fetch data. (", e, ")">>])
    ELSE IF e \in RequestExceptions
      THEN ReturnValue([status |-> "error",
                        error_message |-> <<"Connection Error: Could not connect to the API server.">>])
    ELSE ReturnValue([status |-> "error",
                      error_message |-> <<"An unexpected error occurred: ", e>>])

\* the dispatcher calls get_weather(city)
CallGetWeather ==
    /\ pc = "idle"
    /\ \E r \in WeatherRequests : request' = r
    /\ pc' = "w_geo"
    /\ UNCHANGED <<now, tokenFile, credFile, creds, fileAtCall, loaded, trace,
                   exc, sent, geo, response, result, calendar, log>>

\* lines 102-116: the geocoding request and the choice of the location
WGeocode ==
    /\ pc = "w_geo"
    /\ trace' = Append(trace, "geocode")
    /\ sent' = [url |-> "geocoding", name |-> request.city]
    /\ \/ /\ geo' = [kind |-> "unreachable"]
          /\ exc' = "ConnectionError" /\ pc' = "w_except" /\ result' = result
       \/ /\ geo' = [kind |-> "http_error"]
          /\ exc' = "HTTPError" /\ pc' = "w_except" /\ result' = result
       \/ \E body \in GeoBodies :
            /\ geo' = body
            /\ IF ~body.json
                 THEN (\E e \in JsonErrors : exc' = e) /\ pc' = "w_except" /\ result' = result
               ELSE IF ~body.dict
                 THEN exc' = "AttributeError" /\ pc' = "w_except" /\ result' = result
               ELSE IF GeoNoMatch(body)
                 THEN exc' = exc /\ pc' = "done"
                      /\ result' = ReturnValue(NotFoundError(request.city))
               ELSE IF body.results = <<>>
                 THEN exc' = "IndexError" /\ pc' = "w_except" /\ result' = result
               ELSE IF ~body.results[1].complete
                 THEN exc' = "KeyError" /\ pc' = "w_except" /\ result' = result
               ELSE exc' = exc /\ pc' = "w_forecast" /\ result' = result
    /\ UNCHANGED <<now, tokenFile, credFile, creds, fileAtCall, loaded,
                   request, response, calendar, log>>

\* lines 119-157: the forecast request and the report
WForecast ==
    /\ pc = "w_forecast"
    /\ trace' = Append(trace, "forecast")
    /\ sent' = [url |-> "forecast", name |-> geo.results[1].name]
    /\ \/ /\ response' = [kind |-> "unreachable"]
          /\ exc' = "ConnectionError" /\ pc' = "w_except" /\ result' = result
       \/ /\ response' = [kind |-> "http_error"]
          /\ exc' = "HTTPError" /\ pc' = "w_except" /\ result' = result
       \/ \E body \in ForecastBodies :
            /\ response' = body
            /\ IF ~body.json
                 THEN (\E e \in JsonErrors : exc' = e) /\ pc' = "w_except" /\ result' = result
               ELSE IF ~body.dict
                 THEN exc' = "TypeError" /\ pc' = "w_except" /\ result' = result
               ELSE IF ~body.hasHourly
                 THEN exc' = "KeyError" /\ pc' = "w_except" /\ result' = result
               ELSE IF ProcessError(geo.results[1], body.time, body.temperature_2m) # "none"
                 THEN /\ exc' = ProcessError(geo.results[1], body.time, body.temperature_2m)
                      /\ pc' = "w_except" /\ result' = result
               ELSE /\ exc' = exc /\ pc' = "done"
                    /\ result' = ReturnValue(Success(geo.results[1], body.time,
                                                     body.temperature_2m))
    /\ UNCHANGED <<now, tokenFile, credFile, creds, fileAtCall, loaded,
                   request, geo, calendar, log>>

\* lines 159-166
WExcept ==
    /\ pc = "w_except"
    /\ result' = WeatherHandler(exc)
    /\ trace' = Append(trace, "caught")
    /\ exc' = "none"
    /\ pc' = "done"
    /\ UNCHANGED <<now, tokenFile, credFile, creds, fileAtCall, loaded,
                   request, sent, geo, response, calendar, log>>

\* control is back with the dispatcher
WReturn ==
    /\ pc = "done"
    /\ request.tool = "weather"
    /\ pc' = "idle"
    /\ trace' = <<>>
    /\ request' = NoRequest
    /\ sent' = NoResponse
    /\ geo' = NoResponse
    /\ response' = NoResponse
    /\ result' = NoResult
    /\ UNCHANGED <<now, tokenFile, credFile, creds, fileAtCall, loaded, exc,
                   calendar, log>>

----------------------------------------------------------------------------
(* news_tool *)

Queries == {"general", "General", "bitcoin"}
NewsRequests == [tool : {"news"}, query : Queries, max_articles : 0..MaxArticles]

\* input.query.lower()
Lower(q) == IF q = "General" THEN "general" ELSE q

\* lines 201-219: endpoint, parameters and description of the request
NewsQuery(input) ==
    IF Lower(input.query) = "general"
      THEN [url |-> "top-headlines", country |-> "us", q |-> "", sortBy |-> "",
            pageSize |-> input.max_articles, query_desc |-> <<"Top US Headlines">>]
      ELSE [url |-> "everything", country |-> "", q |-> input.query,
            sortBy |-> "publishedAt", pageSize |-> input.max_articles,
            query_desc |-> <<"News about '", input.query, "'">>]

\* one element of data['articles']: an object with or without its fields, or no object
Articles == {[dict |-> TRUE, title |-> "Rates rise", description |-> "Markets react"],
             [dict |-> TRUE, title |-> "absent", description |-> "absent"],
             [dict |-> FALSE, title |-> "absent", description |-> "absent"]}

NewsBodies ==
    [kind : {"body"}, json : {FALSE}, dict : {FALSE}, hasArticles : {FALSE}, articles : {<<>>}]
    \cup [kind : {"body"}, json : {TRUE}, dict : BOOLEAN, hasArticles : {FALSE},
          articles : {<<>>}]
    \cup [kind : {"body"}, json : {TRUE}, dict : {TRUE}, hasArticles : {TRUE},
          articles : SeqsUpTo(Articles, MaxReturned)]

\* article.get(key, 'N/A')
GetOr(v) == IF v = "absent" THEN "N/A" ELSE v

\* lines 232-241: one block per article the provider returned
NewsReport(desc, articles) ==
    [kind |-> "returned", prefix |-> "Top", count |-> Len(articles), desc |-> desc,
     items |-> [i \in DOMAIN articles |->
                   <<i, GetOr(articles[i].title), GetOr(articles[i].description)>>]]

\* line 229
NoNews(desc) ==
    [kind |-> "returned", prefix |-> "INFO:", count |-> 0, desc |-> desc, items |-> <<>>]

\* lines 243-250: the except clauses, in order
NewsHandler(e) ==
    [kind |-> "returned", prefix |-> "ERROR:", count |-> 0,
     desc |-> IF e = "HTTPError" THEN <<"HTTP Error accessing News API.">>
              ELSE IF e \in RequestExceptions
                     THEN <<"Connection Error: Could not connect to the News API server.">>
              ELSE <<"An unexpected error occurred in news_tool: ", e>>,
     items |-> <<>>]

\* the dispatcher calls news_tool(input)
CallNewsTool ==
    /\ pc = "idle"
    /\ \E r \in NewsRequests : request' = r
    /\ pc' = "n_get"
    /\ UNCHANGED <<now, tokenFile, credFile, creds, fileAtCall, loaded, trace,
                   exc, sent, geo, response, result, calendar, log>>

\* lines 201-241: the request and the report
NGet ==
    /\ pc = "n_get"
    /\ trace' = Append(trace, "news")
    /\ sent' = NewsQuery(request)
    /\ \/ /\ response' = [kind |-> "unreachable"]
          /\ exc' = "ConnectionError" /\ pc' = "n_except" /\ result' = result
       \/ /\ response' = [kind |-> "http_error"]
          /\ exc' = "HTTPError" /\ pc' = "n_except" /\ result' = result
       \/ \E body \in NewsBodies :
            /\ response' = body
            /\ IF ~body.json
                 THEN (\E e \in JsonErrors : exc' = e) /\ pc' = "n_except" /\ result' = result
               ELSE IF ~body.dict
                 THEN exc' = "AttributeError" /\ pc' = "n_except" /\ result' = result
               ELSE IF body.articles = <<>>
                 THEN exc' = exc /\ pc' = "done"
                      /\ result' = NoNews(NewsQuery(request).query_desc)
               ELSE IF \E i \in DOMAIN body.articles : ~body.articles[i].dict
                 THEN exc' = "AttributeError" /\ pc' = "n_except" /\ result' = result
               ELSE exc' = exc /\ pc' = "done"
                    /\ result' = NewsReport(NewsQuery(request).query_desc, body.articles)
    /\ UNCHANGED <<now, tokenFile, credFile, creds, fileAtCall, loaded,
                   request, geo, calendar, log>>

\* lines 243-250
NExcept ==
    /\ pc = "n_except"
    /\ result' = NewsHandler(exc)
    /\ trace' = Append(trace, "caught")
    /\ exc' = "none"
    /\ pc' = "done"
    /\ UNCHANGED <<now, tokenFile, credFile, creds, fileAtCall, loaded,
                   request, sent, geo, response, calendar, log>>

\* control is back with the dispatcher
NReturn ==
    /\ pc = "done"
    /\ request.tool = "news"
    /\ pc' = "idle"
    /\ trace' = <<>>
    /\ request' = NoRequest
    /\ sent' = NoResponse
    /\ response' = NoResponse
    /\ result' = NoResult
    /\ UNCHANGED <<now, tokenFile, credFile, creds, fileAtCall, loaded, exc,
                   geo, calendar, log>>

----------------------------------------------------------------------------
(* Specifications *)

NextTools ==
    \/ CallGetWeather
    \/ WGeocode
    \/ WForecast
    \/ WExcept
    \/ WReturn
    \/ CallNewsTool
    \/ NGet
    \/ NExcept
    \/ NReturn

Next == NextCalendar \/ NextTools

Spec == Init /\ [][Next]_vars

\* the two tools that keep nothing on disk, started without credential files
InitTools == Init /\ tokenFile = NoFile /\ credFile = FALSE

SpecTools == InitTools /\ [][NextTools]_vars

----------------------------------------------------------------------------
(* Properties of create_calendar_event and get_calendar_service *)

InCalendar == pc # "idle" /\ request.tool = "calendar"

\* the running invocation is past the decision of lines 29-36
PastCheck == pc \notin {"idle", "gcs_load", "gcs_check"}

RefreshTaken == pc = "gcs_refresh" \/ Events(trace) \cap {"refresh_ok", "refresh_fail"} # {}

FlowTaken == pc = "gcs_flow" \/ Events(trace) \cap {"flow_ok", "flow_fail"} # {}

\* get_calendar_service has returned the service handle
GcsReturned == "service" \in Events(trace)

MissingSecretRaised ==
    \/ pc = "ce_except" /\ exc = "FileNotFoundError"
    \/ pc = "done" /\ result.detail = "FileNotFoundError"

\* C1 (as claimed): create_calendar_event never raises; it returns "SUCCESS:"
\* whenever the provider insert call succeeded and "ERROR:" in every other case.
C1_SuccessIffInsertSucceeded ==
    (pc = "done" /\ InCalendar) =>
        /\ result.kind = "returned"
        /\ result.prefix = (IF "insert_ok" \in Events(trace) THEN "SUCCESS:" ELSE "ERROR:")

\* C2: starting from a token file with an expired access token and a refresh
\* token, get_calendar_service refreshes through the token endpoint, never
\* starts the interactive flow, never fails for want of the client-secret file,
\* and has overwritten the token file with the refreshed credential when it returns.
C2_Case ==
    /\ InCalendar /\ PastCheck
    /\ loaded.present /\ loaded.token /\ loaded.refresh_token /\ Expired(loaded, now)

C2_RefreshWithoutPrompt ==
    C2_Case =>
        /\ RefreshTaken
        /\ ~FlowTaken
        /\ ~MissingSecretRaised
        /\ GcsReturned =>
              /\ "refresh_ok" \in Events(trace)
              /\ "write" \in Events(trace)
              /\ tokenFile = ToJson(Refreshed(loaded, now))
              /\ tokenFile # fileAtCall

C2_Witness == C2_Case /\ GcsReturned /\ ~credFile

\* C3: with neither a token file nor a client-secret file, get_calendar_service
\* fails with the missing-client-secret error, before any network call and
\* without creating the token file.
C3_Case == InCalendar /\ PastCheck /\ ~fileAtCall.exists /\ ~credFile

C3_MissingSecretFailsFirst ==
    C3_Case =>
        /\ MissingSecretRaised
        /\ trace = <<>>
        /\ ~tokenFile.exists

C3_Witness == C3_Case /\ pc = "ce_except"

\* C7 (as claimed): an invocation issues at most one insert call, and two
\* consecutive invocations with identical arguments whose inserts both succeed
\* create two distinct provider events and both return "SUCCESS:".
C7_DuplicateEventsBothSucceed ==
    /\ \A i \in DOMAIN log : log[i].attempts <= 1
    /\ \A i \in DOMAIN log : \A j \in DOMAIN log :
          (j = i + 1 /\ log[i].request = log[j].request
             /\ log[i].event # 0 /\ log[j].event # 0) =>
              /\ log[i].event # log[j].event
              /\ calendar[log[i].event].summary = calendar[log[j].event].summary
              /\ log[i].result.prefix = "SUCCESS:"
              /\ log[j].result.prefix = "SUCCESS:"

\* C9 (as claimed): an invalid loaded credential with a refresh token is always
\* refreshed, and the interactive flow runs only when no credential was loaded
\* or the loaded credential has no refresh token.
C9_InvalidWithRefreshTokenRefreshes ==
    (InCalendar /\ PastCheck) =>
        /\ (loaded.present /\ ~Valid(loaded, now) /\ loaded.refresh_token) => RefreshTaken
        /\ FlowTaken => (~loaded.present \/ ~loaded.refresh_token)

\* C9 (amended): an expired loaded credential with a refresh token is always
\* refreshed, and the interactive flow runs only when no credential was loaded,
\* or the loaded credential is invalid and has no refresh token or is not expired.
C9_ExpiredWithRefreshTokenRefreshes ==
    (InCalendar /\ PastCheck) =>
        /\ (loaded.present /\ Expired(loaded, now) /\ loaded.refresh_token) => RefreshTaken
        /\ FlowTaken =>
              \/ ~loaded.present
              \/ /\ ~Valid(loaded, now)
                 /\ ~loaded.refresh_token \/ ~Expired(loaded, now)

C9_Witness ==
    /\ InCalendar /\ FlowTaken
    /\ loaded.present /\ loaded.refresh_token /\ ~Expired(loaded, now)

\* C10: the token file changes only in the save step of an invocation that
\* completed a refresh or an interactive authorization, and then holds the
\* serialization of the credential handed to the service; an invocation that
\* loaded a valid credential makes no authentication call, starts no flow and
\* leaves the file as it was, and so does one whose refresh or flow failed.
C10_Frame ==
    InCalendar =>
        /\ tokenFile # fileAtCall => "write" \in Events(trace)
        /\ "write" \in Events(trace) =>
              /\ Events(trace) \cap {"refresh_ok", "flow_ok"} # {}
              /\ tokenFile = ToJson(creds)
        /\ (loaded.present /\ Valid(loaded, now)) =>
              /\ Events(trace) \cap AuthEvents = {}
              /\ pc \notin {"gcs_refresh", "gcs_flow", "gcs_save"}
              /\ tokenFile = fileAtCall
        /\ Events(trace) \cap {"refresh_fail", "flow_fail"} # {} => tokenFile = fileAtCall

C10_TokenFileWrittenOnlyAfterAuth ==
    [][(tokenFile' # tokenFile => pc = "gcs_save") /\ C10_Frame']_vars

C10_Witness ==
    /\ GcsReturned /\ "flow_ok" \in Events(trace) /\ "write" \in Events(trace)
    /\ fileAtCall.exists /\ tokenFile # fileAtCall

----------------------------------------------------------------------------
(* Properties of get_weather and news_tool *)

WeatherDone == pc = "done" /\ request.tool = "weather"
NewsDone == pc = "done" /\ request.tool = "news"

\* the geocoding call succeeded and its answer holds no match
GeoAnsweredNoMatch ==
    geo.kind = "body" /\ geo.json /\ geo.dict /\ (~geo.hasResults \/ Len(geo.results) = 0)

\* the geocoding call succeeded and its answer holds at least one result
GeoAnsweredMatch ==
    geo.kind = "body" /\ geo.json /\ geo.dict /\ geo.hasResults /\ Len(geo.results) >= 1

\* C4: when geocoding succeeds without a match, get_weather returns exactly
\* the not-found structure naming the city as given and issues no forecast
\* request; a forecast request follows only a geocoding answer with a result.
C4_NoMatchNoForecast ==
    /\ (WeatherDone /\ GeoAnsweredNoMatch) =>
          /\ result = ReturnValue(
                 [status |-> "error",
                  error_message |-> <<"Sorry, could not find coordinates for '",
                                      request.city, "'.">>])
          /\ trace = <<"geocode">>
    /\ (pc = "w_forecast" \/ "forecast" \in Events(trace)) =>
          /\ GeoAnsweredMatch
          /\ trace[1] = "geocode"

C4_Witness ==
    /\ WeatherDone /\ GeoAnsweredNoMatch
    /\ geo.hasResults /\ request.city = "Nonexistent City Xyz123"

\* C5 (as claimed): every successful get_weather result has
\* min_temperature_celsius <= max_temperature_celsius and as many entries in
\* hourly_data as the forecast has time stamps, whatever the series' lengths.
C5_HourlyDataCoversTimes ==
    (WeatherDone /\ result.kind = "returned" /\ result.value.status = "success") =>
        /\ result.value.min_temperature_celsius <= result.value.max_temperature_celsius
        /\ Len(result.value.hourly_data) = Len(response.time)

\* C6 (as claimed): in both branches the report of news_tool holds at most
\* max_articles articles, whatever the provider returned.
C6_AtMostMaxArticles ==
    (NewsDone /\ result.prefix = "Top") => Len(result.items) <= request.max_articles

\* the news request was answered with a well-formed body holding no article
NewsAnsweredEmpty ==
    response.kind = "body" /\ response.json /\ response.dict /\ response.articles = <<>>

\* C8: whatever the external calls do, get_weather and news_tool return and
\* never raise; a failure of get_weather has exactly the fields status = "error"
\* and error_message; a failure of news_tool is "ERROR:"-prefixed and an
\* answer without articles is "INFO:"-prefixed.
C8_ToolsNeverRaise ==
    /\ WeatherDone =>
          /\ result.kind = "returned"
          /\ result.value.status \in {"success", "error"}
          /\ "caught" \in Events(trace) => result.value.status = "error"
          /\ result.value.status = "error" =>
                /\ DOMAIN result.value = {"status", "error_message"}
                /\ result.value.error_message \in Seq(STRING)
    /\ NewsDone =>
          /\ result.kind = "returned"
          /\ "caught" \in Events(trace) => result.prefix = "ERROR:"
          /\ NewsAnsweredEmpty => result.prefix = "INFO:"

C8_Witness ==
    /\ WeatherDone /\ "caught" \in Events(trace)
    /\ "forecast" \in Events(trace) /\ response.kind = "body" /\ response.hasHourly

====
